---- MODULE Spec2Model ----
(***************************************************************************)
(* A model of the QOI decoder of src/src/lib.rs: ImageData::decode as a    *)
(* state machine over the byte buffer it reads, the pixel vector it grows   *)
(* and the 64-slot colour index array.  One step of the machine is the      *)
(* header parse, one iteration of the pixel loop, or the end-marker check.  *)
(***************************************************************************)
EXTENDS Integers, Sequences, FiniteSets, TLC

VARIABLES
    input,              \* the Vec<u8> filled by read_to_end (lib.rs:54-55)
    bytes,              \* the slice of input not yet consumed
    header,             \* QOIHeader, once parsed
    pixels,             \* Vec<Pixel>
    color_index_array,  \* [Pixel; 64]
    next_byte,          \* control byte of the latest loop iteration, -1 before
    pc,                 \* "start", "loop" or "done"
    result,             \* "running", "Ok", "Panic" or an error message
    PreviousPixel,      \* history: the output pixel of the latest opcode other than RUN
    iterations          \* history: the number of completed loop iterations

vars == <<input, bytes, header, pixels, color_index_array, next_byte, pc, result,
          PreviousPixel, iterations>>

----------------------------------------------------------------------------
(* Bounds of the model *)

\* the opcode stream of an input is made of at most MaxOps chunks
MaxOps == 2

\* and of at most MaxInfoOps chunks where each input is decoded again with
\* other channels and colorspace bytes
MaxInfoOps == 1
MaxLiveOps == 2

----------------------------------------------------------------------------
(* Constants of the program *)

END_MARKER == <<0, 0, 0, 0, 0, 0, 0, 1>>

QOI_OP_RGB == 254
QOI_OP_RGBA == 255
QOI_OP_INDEX == 0
QOI_OP_DIFF == 1
QOI_OP_LUMA == 2
QOI_OP_RUN == 3

\* b"qoif"
MAGIC == <<113, 111, 105, 102>>

not_enough_bytes == "Not enough bytes to decode"
magic_mismatch == "Magic bytes are not 'qoif'"
no_end_marker == "No valid end marker"
illegal_op_code == "Illegal op code"

----------------------------------------------------------------------------
(* u8 and u32 arithmetic *)

wrapping_add(x, y) == (x + y) % 256
wrapping_sub(x, y) == (x - y) % 256
shr(x, n) == x \div (2 ^ n)
\* x & (2^n - 1)
low_bits(x, n) == x % (2 ^ n)

\* A u32 is kept as its two 16-bit halves, value = hi * 65536 + lo, and
\* multiplied limb by limb (the model checker's integers are 32 bits wide).
U32(hi, lo) == [hi |-> hi, lo |-> lo]

\* u32::from_be_bytes
from_be_bytes(b) == U32(b[1] * 256 + b[2], b[3] * 256 + b[4])

\* the four 8-bit limbs of x, least significant first
Limbs(x) == <<x.lo % 256, x.lo \div 256, x.hi % 256, x.hi \div 256>>

\* column k (0..6) of the schoolbook product of two limb sequences
Column(a, b, k) ==
    LET idx == { i \in 0..3 : k - i \in 0..3 }
        RECURSIVE Sum(_)
        Sum(S) == IF S = {} THEN 0
                  ELSE LET i == CHOOSE j \in S : TRUE
                       IN  a[i + 1] * b[k - i + 1] + Sum(S \ {i})
    IN  Sum(idx)

\* the carry into column k of the product
RECURSIVE Carry(_, _, _)
Carry(a, b, k) == IF k = 0 THEN 0 ELSE (Column(a, b, k - 1) + Carry(a, b, k - 1)) \div 256

\* limb k (0..3) of the product
ProductLimb(a, b, k) == (Column(a, b, k) + Carry(a, b, k)) % 256

\* header.width * header.height on u32: the wrapped value, which a build
\* without overflow checks computes
mul_u32(x, y) ==
    LET a == Limbs(x)
        b == Limbs(y)
    IN  U32(ProductLimb(a, b, 3) * 256 + ProductLimb(a, b, 2),
            ProductLimb(a, b, 1) * 256 + ProductLimb(a, b, 0))

\* whether x * y exceeds u32::MAX: a build with overflow checks panics then
mul_overflows(x, y) ==
    LET a == Limbs(x)
        b == Limbs(y)
    IN  Carry(a, b, 4) + Column(a, b, 4) + Column(a, b, 5) + Column(a, b, 6) > 0

\* n < x as usize, for a length n
len_lt(n, x) ==
    \/ n \div 65536 < x.hi
    \/ n \div 65536 = x.hi /\ n % 65536 < x.lo

----------------------------------------------------------------------------
(* Pixel *)

Pixel(r, g, b, a) == [r |-> r, g |-> g, b |-> b, a |-> a]

\* a hash that leaves the alpha channel out
hash_no_alpha(p) == (p.r * 3 + p.g * 5 + p.b * 7) % 64

\* Pixel::hash
hash(p) == (p.r * 3 + p.g * 5 + p.b * 7 + p.a * 11) % 64

QOIHeader(w, h, c, s) == [width |-> w, height |-> h, channels |-> c, colorspace |-> s]

\* last_pixel that ignores the buffer and yields the default pixel
last_pixel_default(px) == Pixel(0, 0, 0, 255)

\* last_pixel that takes the first element of the buffer instead of the last
last_pixel_first(px) == IF Len(px) = 0 THEN Pixel(0, 0, 0, 255) ELSE px[1]

\* the closure last_pixel
last_pixel(px) == IF px = <<>> THEN Pixel(0, 0, 0, 255) ELSE px[Len(px)]

----------------------------------------------------------------------------
(* Slices *)

Drop(s, n) == SubSeq(s, n + 1, Len(s))

\* get_next_array_chunk::<_, N>: None, or the first N elements and the rest
get_next_array_chunk(bs, N) ==
    IF Len(bs) < N THEN [some |-> FALSE, chunk |-> <<>>, rest |-> <<>>]
    ELSE [some |-> TRUE, chunk |-> SubSeq(bs, 1, N), rest |-> Drop(bs, N)]

\* split_first that leaves the first byte in the slice
split_first_peek(bs) ==
    IF bs = <<>> THEN [some |-> FALSE, first |-> 0, rest |-> <<>>]
    ELSE [some |-> TRUE, first |-> Head(bs), rest |-> bs]

\* <[u8]>::split_first
split_first(bs) ==
    IF bs = <<>> THEN [some |-> FALSE, first |-> 0, rest |-> <<>>]
    ELSE [some |-> TRUE, first |-> Head(bs), rest |-> Tail(bs)]

----------------------------------------------------------------------------
(* Header: lib.rs:58-72 *)

NoHeader == QOIHeader(U32(0, 0), U32(0, 0), 0, 0)

HeaderErr(msg) == [err |-> msg, header |-> NoHeader, rest |-> <<>>]

\* parse_header with the length of the whole header checked before the magic
parse_header_length_first(inp) ==
    IF Len(inp) < 14 THEN HeaderErr(not_enough_bytes)
    ELSE IF SubSeq(inp, 1, 4) # MAGIC THEN HeaderErr(magic_mismatch)
    ELSE [err |-> "none",
          header |-> QOIHeader(from_be_bytes(SubSeq(inp, 5, 8)),
                               from_be_bytes(SubSeq(inp, 9, 12)), inp[13], inp[14]),
          rest |-> Drop(inp, 14)]

\* parse_header with channels and colorspace checked against the format's values
parse_header_validating(inp) ==
    LET p == parse_header_length_first(inp) IN
    IF Len(inp) < 4 THEN HeaderErr(not_enough_bytes)
    ELSE IF SubSeq(inp, 1, 4) # MAGIC THEN HeaderErr(magic_mismatch)
    ELSE IF p.err = "none" /\ (p.header.channels \notin {3, 4} \/ p.header.colorspace \notin {0, 1})
    THEN HeaderErr("Invalid header")
    ELSE p

\* the magic check and the four header reads, each with its early return
parse_header(inp) ==
    LET magic == get_next_array_chunk(inp, 4) IN
    IF ~magic.some THEN HeaderErr(not_enough_bytes)
    ELSE IF magic.chunk # MAGIC THEN HeaderErr(magic_mismatch)
    ELSE
    LET width == get_next_array_chunk(magic.rest, 4) IN
    IF ~width.some THEN HeaderErr(not_enough_bytes)
    ELSE
    LET height == get_next_array_chunk(width.rest, 4) IN
    IF ~height.some THEN HeaderErr(not_enough_bytes)
    ELSE
    LET channels == split_first(height.rest) IN
    IF ~channels.some THEN HeaderErr(not_enough_bytes)
    ELSE
    LET colorspace == split_first(channels.rest) IN
    IF ~colorspace.some THEN HeaderErr(not_enough_bytes)
    ELSE [err |-> "none",
          header |-> QOIHeader(from_be_bytes(width.chunk), from_be_bytes(height.chunk),
                               channels.first, colorspace.first),
          rest |-> colorspace.rest]

----------------------------------------------------------------------------
(* One iteration of the pixel loop: lib.rs:85-133 *)

\* qoi_op_codes.rs:1-9: the range of control bytes of a 2-bit tag
two_bit_op(value) ==
    [START |-> (value * 64) % 256, END |-> ((value * 64) % 256) + 63]

\* qoi_op_codes.rs:13-16
INDEX == two_bit_op(0)
DIFF == two_bit_op(1)
LUMA == two_bit_op(2)
RUN == two_bit_op(3)

\* dispatch that compares the shifted byte with the START of the tag's range
dispatch_shifted_tags(nb) ==
    IF nb = QOI_OP_RGBA THEN "RGBA"
    ELSE IF nb = QOI_OP_RGB THEN "RGB"
    ELSE IF shr(nb, 6) = INDEX.START THEN "INDEX"
    ELSE IF shr(nb, 6) = DIFF.START THEN "DIFF"
    ELSE IF shr(nb, 6) = LUMA.START THEN "LUMA"
    ELSE IF shr(nb, 6) = RUN.START THEN "RUN"
    ELSE "ILLEGAL"

\* dispatch with the 2-bit tags tested before the two 8-bit literals
dispatch_tags_first(nb) ==
    IF shr(nb, 6) = QOI_OP_INDEX THEN "INDEX"
    ELSE IF shr(nb, 6) = QOI_OP_DIFF THEN "DIFF"
    ELSE IF shr(nb, 6) = QOI_OP_LUMA THEN "LUMA"
    ELSE IF shr(nb, 6) = QOI_OP_RUN THEN "RUN"
    ELSE IF nb = QOI_OP_RGBA THEN "RGBA"
    ELSE IF nb = QOI_OP_RGB THEN "RGB"
    ELSE "ILLEGAL"

\* the if / else-if chain on next_byte, in its order
dispatch(nb) ==
    IF nb = QOI_OP_RGBA THEN "RGBA"
    ELSE IF nb = QOI_OP_RGB THEN "RGB"
    ELSE IF shr(nb, 6) = QOI_OP_INDEX THEN "INDEX"
    ELSE IF shr(nb, 6) = QOI_OP_DIFF THEN "DIFF"
    ELSE IF shr(nb, 6) = QOI_OP_LUMA THEN "LUMA"
    ELSE IF shr(nb, 6) = QOI_OP_RUN THEN "RUN"
    ELSE "ILLEGAL"

\* diff_pixel with each component clamped to 0..255 instead of wrapped
Clamp(x) == IF x < 0 THEN 0 ELSE IF x > 255 THEN 255 ELSE x

diff_pixel_clamped(prev_pixel, nb) ==
    Pixel(Clamp(prev_pixel.r + low_bits(shr(nb, 4), 2) - 2),
          Clamp(prev_pixel.g + low_bits(shr(nb, 2), 2) - 2),
          Clamp(prev_pixel.b + low_bits(nb, 2) - 2),
          prev_pixel.a)

\* the QOI_OP_DIFF branch
diff_pixel(prev_pixel, nb) ==
    LET r_diff == wrapping_sub(low_bits(shr(nb, 4), 2), 2)
        g_diff == wrapping_sub(low_bits(shr(nb, 2), 2), 2)
        b_diff == wrapping_sub(low_bits(nb, 2), 2)
    IN  Pixel(wrapping_add(prev_pixel.r, r_diff),
              wrapping_add(prev_pixel.g, g_diff),
              wrapping_add(prev_pixel.b, b_diff),
              prev_pixel.a)

\* luma_pixel with the red and blue deltas taken alone, the green delta not added
luma_pixel_no_green(prev_pixel, nb, rb_diff) ==
    LET g_diff == wrapping_sub(low_bits(nb, 6), 32)
        r_diff == wrapping_sub(shr(rb_diff, 4), 8)
        b_diff == wrapping_sub(low_bits(rb_diff, 4), 8)
    IN  Pixel(wrapping_add(prev_pixel.r, r_diff),
              wrapping_add(prev_pixel.g, g_diff),
              wrapping_add(prev_pixel.b, b_diff),
              prev_pixel.a)

\* the QOI_OP_LUMA branch, rb_diff the second byte
luma_pixel(prev_pixel, nb, rb_diff) ==
    LET g_diff == wrapping_sub(low_bits(nb, 6), 32)
        r_diff == wrapping_sub(wrapping_add(g_diff, shr(rb_diff, 4)), 8)
        b_diff == wrapping_sub(wrapping_add(g_diff, low_bits(rb_diff, 4)), 8)
    IN  Pixel(wrapping_add(prev_pixel.r, r_diff),
              wrapping_add(prev_pixel.g, g_diff),
              wrapping_add(prev_pixel.b, b_diff),
              prev_pixel.a)

\* run_push with the 6-bit field taken as the run length itself
run_push_short(px, nb) ==
    px \o [i \in 1..(low_bits(nb, 6) - 1) |-> last_pixel(px)]

\* the QOI_OP_RUN branch: (0..run_minus_one).for_each(|_| pixels.push(prev_pixel))
run_push(px, nb) ==
    LET prev_pixel == last_pixel(px)
        run_minus_one == low_bits(nb, 6)
    IN  px \o [i \in 1..run_minus_one |-> prev_pixel]

\* cache_put that fills empty slots only and keeps an occupied one
cache_put_no_overwrite(cia, pixel) ==
    IF cia[hash(pixel)] = Pixel(0, 0, 0, 0) THEN [cia EXCEPT ![hash(pixel)] = pixel]
    ELSE cia

\* a cache write that lands one slot after pixel.hash()
cache_put_next_slot(cia, pixel) == [cia EXCEPT ![(hash(pixel) + 1) % 64] = pixel]

\* color_index_array[pixel.hash()] = pixel
cache_put(cia, pixel) == [cia EXCEPT ![hash(pixel)] = pixel]

\* the end of the loop body: pixels.push(pixel), then the cache write
Produced(rest, px, cia, pixel, nb) ==
    [err |-> "none", bytes |-> rest, pixels |-> Append(px, pixel),
     color_index_array |-> cache_put(cia, pixel), next_byte |-> nb, pixel |-> pixel]

\* an early return out of the loop body
Failed(msg, bs, px, cia) ==
    [err |-> msg, bytes |-> bs, pixels |-> px, color_index_array |-> cia,
     next_byte |-> -1, pixel |-> Pixel(0, 0, 0, 0)]

loop_body(bs, px, cia) ==
    LET c == split_first(bs) IN
    IF ~c.some THEN Failed(not_enough_bytes, bs, px, cia)
    ELSE
    LET nb == c.first
        op == dispatch(nb)
    IN
    IF op = "RGBA" THEN
        LET rgba == get_next_array_chunk(c.rest, 4) IN
        IF ~rgba.some THEN Failed(not_enough_bytes, bs, px, cia)
        ELSE Produced(rgba.rest, px, cia,
                      Pixel(rgba.chunk[1], rgba.chunk[2], rgba.chunk[3], rgba.chunk[4]), nb)
    ELSE IF op = "RGB" THEN
        LET rgb == get_next_array_chunk(c.rest, 3) IN
        IF ~rgb.some THEN Failed(not_enough_bytes, bs, px, cia)
        ELSE Produced(rgb.rest, px, cia,
                      Pixel(rgb.chunk[1], rgb.chunk[2], rgb.chunk[3], last_pixel(px).a), nb)
    ELSE IF op = "INDEX" THEN
        Produced(c.rest, px, cia, cia[low_bits(nb, 6)], nb)
    ELSE IF op = "DIFF" THEN
        Produced(c.rest, px, cia, diff_pixel(last_pixel(px), nb), nb)
    ELSE IF op = "LUMA" THEN
        LET rb_diff == split_first(c.rest) IN
        IF ~rb_diff.some THEN Failed(not_enough_bytes, bs, px, cia)
        ELSE Produced(rb_diff.rest, px, cia,
                      luma_pixel(last_pixel(px), nb, rb_diff.first), nb)
    ELSE IF op = "RUN" THEN
        Produced(c.rest, run_push(px, nb), cia, last_pixel(px), nb)
    ELSE Failed(illegal_op_code, bs, px, cia)

\* the loop condition: pixels.len() < (header.width * header.height) as usize
loop_continues(h, px) == len_lt(Len(px), mul_u32(h.width, h.height))

\* end_marker_result that accepts any remainder starting with the marker
end_marker_result_prefix(bs) ==
    IF Len(bs) >= 8 /\ SubSeq(bs, 1, 8) = END_MARKER THEN "Ok" ELSE no_end_marker

\* the end-marker check: bytes != END_MARKER
end_marker_result(bs) == IF bs # END_MARKER THEN no_end_marker ELSE "Ok"

\* InitialCache filled with the default pixel instead of the zero pixel
InitialCacheDefaultPixel == [i \in 0..63 |-> Pixel(0, 0, 0, 255)]

\* [Pixel::new(0, 0, 0, 0); 64]
InitialCache == [i \in 0..63 |-> Pixel(0, 0, 0, 0)]

----------------------------------------------------------------------------
(* The whole of decode as a function of its input: lib.rs:53-141.           *)
(* overflow_checks tells whether the build panics on u32 overflow.          *)

Outcome(res, h, px) ==
    IF res = "Ok"
    THEN [result |-> res, width |-> h.width, height |-> h.height, pixels |-> px]
    ELSE [result |-> res, width |-> U32(0, 0), height |-> U32(0, 0), pixels |-> <<>>]

RECURSIVE decode_loop(_, _, _, _)
decode_loop(h, bs, px, cia) ==
    IF loop_continues(h, px)
    THEN LET it == loop_body(bs, px, cia) IN
         IF it.err # "none" THEN Outcome(it.err, h, <<>>)
         ELSE decode_loop(h, it.bytes, it.pixels, it.color_index_array)
    ELSE Outcome(end_marker_result(bs), h, px)

decode(inp, overflow_checks) ==
    LET p == parse_header(inp) IN
    IF p.err # "none" THEN Outcome(p.err, p.header, <<>>)
    ELSE IF overflow_checks /\ mul_overflows(p.header.width, p.header.height)
    THEN Outcome("Panic", p.header, <<>>)
    ELSE decode_loop(p.header, p.rest, <<>>, InitialCache)

----------------------------------------------------------------------------
(* The inputs of the model: a header, at most MaxOps chunks of opcode      *)
(* stream and a tail, or a buffer that ends inside the header.              *)

BadMagic == <<113, 111, 105, 103>>

\* width and height as the eight header bytes: 1x1, 2x1, 3x1
DimBytes ==
    { <<0, 0, 0, 1, 0, 0, 0, 1>>, <<0, 0, 0, 2, 0, 0, 0, 1>>,
      <<0, 0, 0, 3, 0, 0, 0, 1>> }

\* channels and colorspace
InfoBytes == { <<4, 0>>, <<255, 7>> }

Headers == { MAGIC \o d \o i : d \in DimBytes, i \in InfoBytes }

\* 65536x65536: the product of width and height is 2^32
OverflowHeader == MAGIC \o <<0, 1, 0, 0, 0, 1, 0, 0, 4, 0>>

OpChunks ==
    { <<255, 10, 20, 30, 40>>,   \* RGBA
      <<255, 0, 0, 0, 64>>,      \* RGBA, a pixel of hash 0
      <<254, 1, 2, 3>>,          \* RGB
      <<53>>,                    \* INDEX 53
      <<64>>,                    \* DIFF, all fields 0
      <<128, 0>>,                \* LUMA, all fields 0
      <<192>>,                   \* RUN, field 0
      <<193>> }                  \* RUN, field 1

Tails ==
    { END_MARKER,
      END_MARKER \o <<0>>,
      <<0, 0, 0, 0, 0, 0, 0>>,
      <<0, 0, 0, 0, 0, 0, 0, 2>>,
      <<>>,
      <<255, 10, 20>>,
      <<254, 1>>,
      <<128>> }

Streams(max) == UNION { [1..n -> OpChunks] : n \in 0..max }

RECURSIVE Flatten(_)
Flatten(ss) == IF ss = <<>> THEN <<>> ELSE Head(ss) \o Flatten(Tail(ss))

ShortHeader == MAGIC \o <<0, 0, 0, 1, 0, 0, 0, 1, 4, 0>>
BadHeader == BadMagic \o <<0, 0, 0, 1, 0, 0, 0, 1, 4, 0>>

Inputs(max) ==
    { h \o Flatten(s) \o t : h \in Headers, s \in Streams(max), t \in Tails }
    \cup { OverflowHeader \o t : t \in Tails }
    \cup { OverflowHeader \o c \o END_MARKER : c \in OpChunks }
    \cup { SubSeq(ShortHeader, 1, n) : n \in 0..13 }
    \cup { SubSeq(BadHeader, 1, n) : n \in 0..14 }
    \cup { BadHeader \o c \o END_MARKER : c \in OpChunks }

----------------------------------------------------------------------------
(* The state machine *)

InitOn(inputs) ==
    /\ input \in inputs
    /\ bytes = input
    /\ header = NoHeader
    /\ pixels = <<>>
    /\ color_index_array = InitialCache
    /\ next_byte = -1
    /\ pc = "start"
    /\ result = "running"
    /\ PreviousPixel = Pixel(0, 0, 0, 255)
    /\ iterations = 0

Init == InitOn(Inputs(MaxOps))

Return(res) ==
    /\ pc' = "done"
    /\ result' = res

\* lib.rs:58-72
ParseHeader ==
    /\ pc = "start"
    /\ LET p == parse_header(bytes) IN
       IF p.err # "none"
       THEN /\ Return(p.err)
            /\ UNCHANGED <<input, bytes, header, pixels, color_index_array, next_byte,
                 PreviousPixel, iterations>>
       ELSE /\ header' = p.header
            /\ bytes' = p.rest
            /\ pc' = "loop"
            /\ UNCHANGED <<input, pixels, color_index_array, next_byte, result,
                         PreviousPixel, iterations>>

\* lib.rs:84: the multiplication of the loop condition overflows u32 and the
\* build checks overflow; it does so at the first evaluation
LoopPanic ==
    /\ pc = "loop"
    /\ pixels = <<>>
    /\ next_byte = -1
    /\ mul_overflows(header.width, header.height)
    /\ Return("Panic")
    /\ UNCHANGED <<input, bytes, header, pixels, color_index_array, next_byte,
                 PreviousPixel, iterations>>

\* lib.rs:84-133: one iteration that produces pixels with opcode op
Iterate(op) ==
    /\ pc = "loop"
    /\ loop_continues(header, pixels)
    /\ LET it == loop_body(bytes, pixels, color_index_array) IN
       /\ it.err = "none"
       /\ dispatch(it.next_byte) = op
       /\ bytes' = it.bytes
       /\ pixels' = it.pixels
       /\ color_index_array' = it.color_index_array
       /\ next_byte' = it.next_byte
       /\ PreviousPixel' = IF op = "RUN" THEN PreviousPixel ELSE it.pixel
    /\ iterations' = iterations + 1
    /\ UNCHANGED <<input, header, pc, result>>

OpRGBA ==
    /\ pc = "loop"
    /\ Iterate("RGBA")
OpRGB ==
    /\ pc = "loop"
    /\ Iterate("RGB")
OpINDEX ==
    /\ pc = "loop"
    /\ Iterate("INDEX")
OpDIFF ==
    /\ pc = "loop"
    /\ Iterate("DIFF")
OpLUMA ==
    /\ pc = "loop"
    /\ Iterate("LUMA")
OpRUN ==
    /\ pc = "loop"
    /\ Iterate("RUN")

\* lib.rs:86-130: one iteration that returns an error
LoopError ==
    /\ pc = "loop"
    /\ loop_continues(header, pixels)
    /\ LET it == loop_body(bytes, pixels, color_index_array) IN
       /\ it.err # "none"
       /\ Return(it.err)
    /\ UNCHANGED <<input, bytes, header, pixels, color_index_array, next_byte,
                 PreviousPixel, iterations>>

\* lib.rs:136-140
CheckEndMarker ==
    /\ pc = "loop"
    /\ ~loop_continues(header, pixels)
    /\ Return(end_marker_result(bytes))
    /\ UNCHANGED <<input, bytes, header, pixels, color_index_array, next_byte,
                 PreviousPixel, iterations>>

Next ==
    \/ ParseHeader
    \/ LoopPanic
    \/ OpRGBA
    \/ OpRGB
    \/ OpINDEX
    \/ OpDIFF
    \/ OpLUMA
    \/ OpRUN
    \/ LoopError
    \/ CheckEndMarker

Spec == Init /\ [][Next]_vars

\* decode on the inputs of at most MaxInfoOps chunks
InitInfo == InitOn(Inputs(MaxInfoOps))

SpecInfo == InitInfo /\ [][Next]_vars

TypeOK ==
    /\ pc \in {"start", "loop", "done"}
    /\ result \in {"running", "Ok", "Panic", not_enough_bytes, magic_mismatch,
                   no_end_marker, illegal_op_code}
    /\ next_byte \in -1..255
    /\ iterations \in 0..Len(pixels)
    /\ \A i \in 1..Len(pixels) : \A f \in {"r", "g", "b", "a"} : pixels[i][f] \in 0..255

----------------------------------------------------------------------------
(* Specifications of single opcodes: decode stands in its loop, after the  *)
(* header and at most one RGBA opcode, with the opcode under study next.    *)

Header1x1 == MAGIC \o <<0, 0, 0, 1, 0, 0, 0, 1, 4, 0>>
Header2x1 == MAGIC \o <<0, 0, 0, 2, 0, 0, 0, 1, 4, 0>>
Header3x1 == MAGIC \o <<0, 0, 0, 3, 0, 0, 0, 1, 4, 0>>

\* the state of decode after the header hdr and, when px holds a pixel, the
\* RGBA opcode that produced it, with rest still to read
AtLoop(hdr, px, rest) ==
    /\ input = hdr \o (IF px = <<>> THEN <<>>
                       ELSE <<255, px[1].r, px[1].g, px[1].b, px[1].a>>) \o rest
    /\ bytes = rest
    /\ header = parse_header(hdr).header
    /\ pixels = px
    /\ color_index_array = IF px = <<>> THEN InitialCache
                           ELSE cache_put(InitialCache, px[1])
    /\ next_byte = IF px = <<>> THEN -1 ELSE 255
    /\ pc = "loop"
    /\ result = "running"
    /\ PreviousPixel = IF px = <<>> THEN Pixel(0, 0, 0, 255) ELSE px[1]
    /\ iterations = Len(px)

ChannelSample == {0, 1, 100, 255}

DiffStarts ==
    {<<>>} \cup { <<Pixel(r, g, b, a)>> : r \in ChannelSample, g \in ChannelSample,
                                           b \in ChannelSample, a \in {0, 255} }

InitDiff ==
    \E px \in DiffStarts, d \in 64..127 : AtLoop(Header2x1, px, <<d>> \o END_MARKER)

NextDiff ==
    \/ OpDIFF
    \/ CheckEndMarker

SpecDiff == InitDiff /\ [][NextDiff]_vars

LumaStarts ==
    { <<>>, <<Pixel(0, 0, 0, 0)>>, <<Pixel(255, 255, 255, 255)>>,
      <<Pixel(39, 100, 217, 7)>> }

NibbleSample == {0, 1, 7, 8, 9, 15}

InitLuma ==
    \E px \in LumaStarts, l \in 128..191, hn \in NibbleSample, ln \in NibbleSample :
        AtLoop(Header2x1, px, <<l, hn * 16 + ln>> \o END_MARKER)

NextLuma ==
    \/ OpLUMA
    \/ CheckEndMarker

SpecLuma == InitLuma /\ [][NextLuma]_vars

RunStarts == { <<>>, <<Pixel(10, 20, 30, 40)>>, <<Pixel(0, 0, 0, 64)>> }

InitRun ==
    \E px \in RunStarts, n \in 192..253, t \in {END_MARKER, <<>>} :
        AtLoop(Header3x1, px, <<n>> \o t)

NextRun ==
    \/ OpRUN
    \/ CheckEndMarker

SpecRun == InitRun /\ [][NextRun]_vars

\* every control byte with top bits 11, the two literals 0xFE and 0xFF
\* included, followed by four bytes
InitTop ==
    \E px \in RunStarts, n \in 192..255 :
        AtLoop(Header3x1, px, <<n, 1, 2, 3, 4>> \o END_MARKER)

NextTop ==
    \/ OpRUN
    \/ OpRGB
    \/ OpRGBA
    \/ CheckEndMarker

SpecTop == InitTop /\ [][NextTop]_vars

\* every INDEX byte, followed by a second INDEX byte
InitIndex ==
    \E px \in RunStarts, i \in 0..63, j \in {0, 12, 53}, t \in {END_MARKER, <<>>} :
        AtLoop(Header3x1, px, <<i, j>> \o t)

NextIndex ==
    \/ OpINDEX
    \/ LoopError
    \/ CheckEndMarker

SpecIndex == InitIndex /\ [][NextIndex]_vars

RgbStarts == { <<>>, <<Pixel(10, 20, 30, 40)>>, <<Pixel(9, 9, 9, 0)>> }

OperandSample == {0, 7, 255}

\* an RGB or RGBA control byte followed by four bytes
InitRgb ==
    \E px \in RgbStarts, op \in {QOI_OP_RGB, QOI_OP_RGBA},
       r \in OperandSample, g \in OperandSample, b \in OperandSample, a \in OperandSample :
        AtLoop(Header2x1, px, <<op, r, g, b, a>> \o END_MARKER)

NextRgb ==
    \/ OpRGB
    \/ OpRGBA
    \/ CheckEndMarker

SpecRgb == InitRgb /\ [][NextRgb]_vars

\* pixels with one channel over the whole u8 range and the others at an end
HashSample ==
    LET ends == {0, 255} IN
         { Pixel(v, x, y, z) : v \in 0..255, x \in ends, y \in ends, z \in ends }
    \cup { Pixel(x, v, y, z) : v \in 0..255, x \in ends, y \in ends, z \in ends }
    \cup { Pixel(x, y, v, z) : v \in 0..255, x \in ends, y \in ends, z \in ends }
    \cup { Pixel(x, y, z, v) : v \in 0..255, x \in ends, y \in ends, z \in ends }

\* an RGBA opcode that produces a pixel of the sample, whose hash the cache
\* write of the iteration takes
InitHash ==
    \E p \in HashSample :
        AtLoop(Header1x1, <<>>, <<QOI_OP_RGBA, p.r, p.g, p.b, p.a>> \o END_MARKER)

NextHash ==
    \/ OpRGBA
    \/ CheckEndMarker

SpecHash == InitHash /\ [][NextHash]_vars

LiveChunks ==
    { <<255, 10, 20, 30, 40>>, <<254, 1, 2, 3>>, <<53>>, <<64>>, <<128, 0>>, <<193>> }

\* a 3x1 header, at most MaxLiveOps chunks and the end marker or nothing; the
\* 65536x65536 header; a header that ends early; a header with a wrong magic
LiveInputs ==
    { Header3x1 \o Flatten(s) \o t :
        s \in UNION { [1..n -> LiveChunks] : n \in 0..MaxLiveOps },
        t \in {END_MARKER, <<>>} }
    \cup { OverflowHeader \o END_MARKER, SubSeq(ShortHeader, 1, 9), BadHeader }

InitLive == InitOn(LiveInputs)

\* decode is one synchronous call: a step that can be taken is taken
SpecLive == InitLive /\ [][Next]_vars /\ WF_vars(Next)

\* every control byte, followed by enough operands or by nothing
InitByte ==
    \E px \in RunStarts, b \in 0..255, t \in {<<1, 2, 3, 4>> \o END_MARKER, <<>>} :
        AtLoop(Header3x1, px, <<b>> \o t)

NextByte ==
    \/ OpRGBA
    \/ OpRGB
    \/ OpINDEX
    \/ OpDIFF
    \/ OpLUMA
    \/ OpRUN
    \/ LoopError
    \/ CheckEndMarker

SpecByte == InitByte /\ [][NextByte]_vars

----------------------------------------------------------------------------
(* Properties *)

\* n = x, for a length n and a u32 x
len_eq(n, x) == n \div 65536 = x.hi /\ n % 65536 = x.lo

\* the header of the input was read in full and its magic accepted
HeaderParsed == parse_header(input).err = "none"

HasMagic(inp) == Len(inp) >= 4 /\ SubSeq(inp, 1, 4) = MAGIC

\* fewer pixels have been produced than the product width * height, taken
\* in the integers
FewerThanAll ==
    \/ mul_overflows(header.width, header.height)
    \/ len_lt(Len(pixels), mul_u32(header.width, header.height))

\* the number of pixels is the product width * height, taken in the integers
ExactlyAll ==
    /\ ~mul_overflows(header.width, header.height)
    /\ len_eq(Len(pixels), mul_u32(header.width, header.height))

\* the pixel before the latest one, the default pixel when there is none
PrevOfLast == IF Len(pixels) >= 2 THEN pixels[Len(pixels) - 1] ELSE Pixel(0, 0, 0, 255)

\* the pixel loop stands before a control byte of the given opcode and the
\* step is an iteration that stays in the loop
IterationOf(op) ==
    /\ pc = "loop"
    /\ pc' = "loop"
    /\ bytes # <<>>
    /\ dispatch(Head(bytes)) = op
    /\ pixels' # pixels

\* C1: whenever decode returns Ok, the number of decoded pixels is exactly
\* width * height.
C1_OkHasExactlyAllPixels == result = "Ok" => ExactlyAll

\* C2: an input of at least 4 bytes whose first 4 bytes are not 'qoif' fails
\* with the magic-mismatch error, whatever follows and however short it is.
C2_BadMagicIsMagicMismatch ==
    (pc = "done" /\ Len(input) >= 4 /\ SubSeq(input, 1, 4) # MAGIC)
        => result = magic_mismatch

C2_Witness ==
    /\ pc = "done"
    /\ Len(input) \in 4..13
    /\ SubSeq(input, 1, 4) # MAGIC
    /\ result = magic_mismatch

\* the buffer ends before the control byte or the operand the loop reads next
EndsBeforeOperand(bs) ==
    \/ bs = <<>>
    \/ Head(bs) = QOI_OP_RGBA /\ Len(bs) < 5
    \/ Head(bs) = QOI_OP_RGB /\ Len(bs) < 4
    \/ shr(Head(bs), 6) = QOI_OP_LUMA /\ Len(bs) < 2

\* C3: with a valid magic, a buffer that ends before a header field, a control
\* byte or an opcode operand can be read, while fewer than width * height pixels
\* have been produced, fails with the truncated-input error and nothing else.
C3_TruncatedIsNotEnoughBytes ==
    (pc = "done" /\ HasMagic(input))
        => /\ Len(input) < 14 => result = not_enough_bytes
           /\ (Len(input) >= 14 /\ FewerThanAll /\ EndsBeforeOperand(bytes))
                  => result = not_enough_bytes

\* the pixel loop has run to its end: the header was read, the loop condition
\* is false and its evaluation did not panic
LoopCompleted ==
    /\ pc = "done"
    /\ HeaderParsed
    /\ ~loop_continues(header, pixels)
    /\ result # "Panic"

\* C4: once the pixel loop has completed, decode returns Ok if the remaining
\* bytes are exactly the 8 bytes of the end marker, and the end-marker error
\* for any other remainder.
C4_EndMarkerDecides ==
    LoopCompleted => result = (IF bytes = END_MARKER THEN "Ok" ELSE no_end_marker)

C4_Witness ==
    /\ LoopCompleted
    /\ pixels # <<>>
    /\ bytes = END_MARKER
    /\ result = "Ok"

\* C5: after an iteration that decodes a pixel P with a non-RUN opcode, the
\* slot hash(P) of the colour index array holds P, also when P came from an
\* INDEX lookup of another slot.
C5_ProducedPixelIsCached ==
    (next_byte # -1 /\ dispatch(next_byte) # "RUN")
        => color_index_array[hash(last_pixel(pixels))] = last_pixel(pixels)

C5_Witness ==
    /\ next_byte # -1
    /\ dispatch(next_byte) = "INDEX"
    /\ low_bits(next_byte, 6) # hash(last_pixel(pixels))
    /\ Len(pixels) >= 2
    /\ hash(PrevOfLast) = hash(last_pixel(pixels))
    /\ PrevOfLast # last_pixel(pixels)

\* C6: a RUN opcode leaves the 64 slots of the colour index array and the
\* previous pixel as they were, from every state, the initial one included.
C6_RunLeavesCacheAndPrev ==
    [][IterationOf("RUN")
         => /\ color_index_array' = color_index_array
            /\ last_pixel(pixels') = last_pixel(pixels)]_vars

\* C7: a DIFF opcode outputs r, g, b = (prev + field - 2) mod 256 for the 2-bit
\* fields at bits 5-4, 3-2, 1-0, and a = prev.a, wrapping in both directions.
C7_DiffWraps ==
    (next_byte # -1 /\ dispatch(next_byte) = "DIFF")
        => LET prev == PrevOfLast
               p == last_pixel(pixels)
               dr == (next_byte \div 16) % 4
               dg == (next_byte \div 4) % 4
               db == next_byte % 4
           IN  /\ pixels # <<>>
               /\ p.r = (prev.r + dr - 2) % 256
               /\ p.g = (prev.g + dg - 2) % 256
               /\ p.b = (prev.b + db - 2) % 256
               /\ p.a = prev.a

C7_Witness ==
    /\ next_byte = 64
    /\ pixels = <<Pixel(254, 254, 254, 255)>>

\* the input with bytes 12 and 13 (channels, colorspace) replaced
WithInfo(inp, c, s) ==
    [i \in 1..Len(inp) |-> IF i = 13 THEN c ELSE IF i = 14 THEN s ELSE inp[i]]

InfoSample == {0, 3, 4, 255}

\* C8: an input that differs from the decoded one in bytes 12 and 13 only has
\* the same outcome: the same error, or Ok with the same width, height and
\* pixels; no value of channels or colorspace is rejected.
C8_InfoBytesIgnored ==
    pc = "done"
        => \A c \in InfoSample, s \in InfoSample :
               decode(WithInfo(input, c, s), result = "Panic")
                   = Outcome(result, header, pixels)

C8_Witness ==
    /\ pc = "done"
    /\ result = "Ok"
    /\ header.channels = 255
    /\ header.colorspace = 7
    /\ pixels # <<>>

\* C9: a LUMA opcode with 6-bit field gf and second byte hn:ln outputs
\* g = (prev.g + gf - 32) mod 256, r = (prev.r + (gf - 32) + (hn - 8)) mod 256,
\* b = (prev.b + (gf - 32) + (ln - 8)) mod 256, a = prev.a, and consumes the
\* control byte and exactly one more byte.
C9_LumaWraps ==
    [][IterationOf("LUMA")
         => LET prev == last_pixel(pixels)
                gf == Head(bytes) % 64
                hn == bytes[2] \div 16
                ln == bytes[2] % 16
            IN  /\ Len(bytes) >= 2
                /\ bytes' = SubSeq(bytes, 3, Len(bytes))
                /\ pixels' = Append(pixels,
                       Pixel((prev.r + (gf - 32) + (hn - 8)) % 256,
                             (prev.g + gf - 32) % 256,
                             (prev.b + (gf - 32) + (ln - 8)) % 256,
                             prev.a))]_vars

C9_Witness ==
    /\ next_byte # -1
    /\ dispatch(next_byte) = "LUMA"
    /\ next_byte % 64 < 32
    /\ last_pixel(pixels).g > PrevOfLast.g

\* C10: a RUN opcode with 6-bit field n appends exactly n + 1 copies of the
\* previous pixel (the default pixel when none was produced) and consumes no
\* byte but its control byte.
C10_RunAppendsFieldPlusOne ==
    [][IterationOf("RUN")
         => LET n == Head(bytes) % 64 IN
            /\ pixels' = pixels \o [i \in 1..(n + 1) |-> last_pixel(pixels)]
            /\ bytes' = Tail(bytes)]_vars

C10_Witness ==
    /\ next_byte = 193
    /\ pixels = <<Pixel(10, 20, 30, 40), Pixel(10, 20, 30, 40), Pixel(10, 20, 30, 40)>>
    /\ result = "Ok"

\* the pixel loop stands before a control byte whose top 2 bits are 11 and
\* the step is an iteration that stays in the loop
IterationOfTopBits11 ==
    /\ pc = "loop"
    /\ pc' = "loop"
    /\ bytes # <<>>
    /\ Head(bytes) \div 64 = 3
    /\ pixels' # pixels

\* C11, as claimed: every control byte with top 2 bits 11, the fields 62 and
\* 63 included, is a RUN that appends field + 1 copies of the previous pixel,
\* so that the run lengths 1..64 can all be produced.
C11_EveryTopBits11IsRun ==
    [][IterationOfTopBits11
         => pixels' = pixels \o [i \in 1..((Head(bytes) % 64) + 1) |-> last_pixel(pixels)]]_vars

\* C11, amended: a control byte with top 2 bits 11 and field 0..61 is a RUN
\* of field + 1 pixels, so that one opcode produces the run lengths 1..62; the
\* bytes with field 62 and 63 are 0xFE and 0xFF, which are decoded as RGB and
\* RGBA, append one pixel made of their operand bytes and are never a RUN.
C11_TopFieldsAreRgbAndRgba ==
    [][IterationOfTopBits11
         => LET n == Head(bytes) % 64
                prev == last_pixel(pixels)
            IN  IF n <= 61
                THEN /\ pixels' = pixels \o [i \in 1..(n + 1) |-> prev]
                     /\ bytes' = Tail(bytes)
                ELSE IF n = 62
                THEN /\ pixels' = Append(pixels, Pixel(bytes[2], bytes[3], bytes[4], prev.a))
                     /\ bytes' = SubSeq(bytes, 5, Len(bytes))
                ELSE /\ pixels' = Append(pixels, Pixel(bytes[2], bytes[3], bytes[4], bytes[5]))
                     /\ bytes' = SubSeq(bytes, 6, Len(bytes))]_vars

C11_Witness ==
    /\ next_byte = 254
    /\ pixels = <<Pixel(10, 20, 30, 40), Pixel(1, 2, 3, 40)>>
    /\ bytes = <<4>> \o END_MARKER

\* n > x as usize, for a length n
len_gt(n, x) ==
    \/ n \div 65536 > x.hi
    \/ n \div 65536 = x.hi /\ n % 65536 > x.lo

\* C12: in every state of the decode loop the pixel buffer holds at most
\* width * height pixels; a RUN that specifies more copies than are missing
\* appends the missing ones only.
C12_AtMostAllPixels ==
    (pc # "start" /\ HeaderParsed)
        => \/ mul_overflows(header.width, header.height)
           \/ ~len_gt(Len(pixels), mul_u32(header.width, header.height))

\* the pixel loop is about to read an INDEX control byte
IndexAtHead ==
    /\ pc = "loop"
    /\ loop_continues(header, pixels)
    /\ bytes # <<>>
    /\ Head(bytes) \div 64 = 0

\* C13: an INDEX control byte with index i outputs the content of slot i of
\* the colour index array as it is, for every i and every array, and does
\* not fail; a slot that no pixel of this decode was written to holds
\* (0,0,0,0), and that is the pixel the INDEX outputs.
C13_IndexOutputsSlot ==
    [][IndexAtHead
         => LET i == Head(bytes) % 64 IN
            /\ pc' = "loop"
            /\ result' = "running"
            /\ pixels' = Append(pixels, color_index_array[i])
            /\ bytes' = Tail(bytes)
            /\ (\A k \in 1..Len(pixels) : hash(pixels[k]) # i)
                   => pixels'[Len(pixels')] = Pixel(0, 0, 0, 0)]_vars

C13_Witness ==
    /\ next_byte = 5
    /\ pixels = <<Pixel(0, 0, 0, 0)>>
    /\ pc = "loop"

\* the most recently appended pixel, the default pixel when there is none
MostRecent(px) == IF Len(px) = 0 THEN Pixel(0, 0, 0, 255) ELSE px[Len(px)]

\* C14: an RGB opcode (0xFE) consumes exactly 3 bytes r, g, b and outputs
\* (r, g, b, prev.a), prev the most recently appended pixel or (0,0,0,255);
\* an RGBA opcode (0xFF) consumes exactly 4 bytes and outputs them unchanged.
C14_RgbAndRgba ==
    [][(pc = "loop" /\ pc' = "loop" /\ bytes # <<>> /\ pixels' # pixels
            /\ Head(bytes) \in {254, 255})
         => IF Head(bytes) = 254
            THEN /\ Len(bytes) >= 4
                 /\ pixels' = Append(pixels, Pixel(bytes[2], bytes[3], bytes[4],
                                                   MostRecent(pixels).a))
                 /\ bytes' = SubSeq(bytes, 5, Len(bytes))
            ELSE /\ Len(bytes) >= 5
                 /\ pixels' = Append(pixels, Pixel(bytes[2], bytes[3], bytes[4], bytes[5]))
                 /\ bytes' = SubSeq(bytes, 6, Len(bytes))]_vars

C14_Witness ==
    /\ next_byte = 254
    /\ pixels = <<Pixel(10, 20, 30, 40), Pixel(0, 7, 255, 40)>>
    /\ bytes = <<0>> \o END_MARKER

\* C15: each loop iteration changes at most one slot of the colour index
\* array, the slot hash(P) of the pixel P it produced, overwriting whatever
\* was there; the other 63 slots are unchanged by that iteration.
C15_OneSlotPerIteration ==
    [][pc = "loop"
         => IF pixels' # pixels
            THEN LET P == pixels'[Len(pixels')] IN
                 /\ color_index_array'[hash(P)] = P
                 /\ \A i \in 0..63 :
                        i # hash(P) => color_index_array'[i] = color_index_array[i]
            ELSE color_index_array' = color_index_array]_vars

C15_Witness ==
    /\ next_byte = 254
    /\ color_index_array[12] = Pixel(10, 20, 30, 40)
    /\ color_index_array[26] = Pixel(1, 2, 3, 40)
    /\ \A i \in 0..63 : i \notin {12, 26} => color_index_array[i] = Pixel(0, 0, 0, 0)

\* C16: after every sequence of opcodes the previous pixel of the code, the
\* last element of the pixel buffer or (0,0,0,255) when the buffer is empty,
\* equals PreviousPixel, which starts at (0,0,0,255), is set to the output
\* pixel by every opcode other than RUN and is left untouched by RUN.
C16_LastPixelIsPreviousPixel == last_pixel(pixels) = PreviousPixel

C16_Witness ==
    /\ next_byte = 193
    /\ PreviousPixel = Pixel(10, 20, 30, 40)
    /\ Len(pixels) = 3
    /\ iterations = 2

\* u8 multiplication that wraps
wrapping_mul(x, y) == (x * y) % 256

\* 3r + 5g + 7b + 11a with every multiplication and addition reduced modulo
\* 256, then modulo 64
hash_u8(p) ==
    wrapping_add(wrapping_add(wrapping_add(wrapping_mul(p.r, 3), wrapping_mul(p.g, 5)),
                              wrapping_mul(p.b, 7)),
                 wrapping_mul(p.a, 11)) % 64

\* C17: for every pixel (r,g,b,a) with components in 0..255 Pixel::hash is
\* (3r + 5g + 7b + 11a) mod 64, a value in 0..63, and equals the same sum
\* evaluated modulo 256 at every multiplication and addition, then mod 64.
C17_HashIsSumMod64 ==
    (next_byte = 255 /\ pixels # <<>>)
        => LET p == pixels[Len(pixels)]
               h == hash(p)
           IN  /\ h = (3 * p.r + 5 * p.g + 7 * p.b + 11 * p.a) % 64
               /\ h \in 0..63
               /\ h = hash_u8(p)
               /\ color_index_array[hash_u8(p)] = p

C17_Witness ==
    /\ next_byte = 255
    /\ pixels = <<Pixel(255, 255, 255, 255)>>
    /\ color_index_array[38] = Pixel(255, 255, 255, 255)

\* C18: for every header width and height in the u32 range the pixel count
\* the decode loop runs up to equals the product width * height in the
\* integers; the u32 multiplication of the loop bound neither overflows nor
\* wraps to a smaller count.
C18_LoopBoundIsProduct ==
    (pc # "start" /\ HeaderParsed)
        => /\ ~mul_overflows(header.width, header.height)
           /\ result # "Panic"

\* the bytes the pixel loop has consumed, the 14 bytes of the header aside
OpcodeBytesConsumed == Len(input) - 14 - Len(bytes)

\* one step of the pixel loop returns, or consumes at least one byte and
\* appends at least one pixel
LoopStepProgresses ==
    pc = "loop"
        => \/ pc' = "done" /\ result' # "running"
           \/ /\ Len(bytes') < Len(bytes)
              /\ Len(pixels') > Len(pixels)
              /\ iterations' = iterations + 1

\* the iterations so far number at most the opcode bytes read and at most
\* width * height
IterationsBounded ==
    (pc # "start" /\ HeaderParsed)
        => /\ iterations <= OpcodeBytesConsumed
           /\ OpcodeBytesConsumed <= Len(input) - 14
           /\ \/ mul_overflows(header.width, header.height)
              \/ ~len_gt(iterations, mul_u32(header.width, header.height))

\* C19: decode terminates on every finite input: each iteration of the pixel
\* loop returns an error or consumes at least one byte and appends at least
\* one pixel, so the loop runs at most min(number of opcode bytes,
\* width * height) iterations before decode ends (with Ok or an error; a
\* build with overflow checks ends on the header of C18 by its panic).
C19_DecodeTerminates ==
    /\ [][LoopStepProgresses]_vars
    /\ []IterationsBounded
    /\ <>(pc = "done" /\ result # "running")

C19_Witness ==
    /\ pc = "done"
    /\ result = "Ok"
    /\ iterations = 2
    /\ OpcodeBytesConsumed = 6
    /\ len_eq(3, mul_u32(header.width, header.height))

\* the 2-bit opcodes whose range of control bytes holds b
TagsOf(b) ==
    { t \in {"INDEX", "DIFF", "LUMA", "RUN"} :
        LET range == CASE t = "INDEX" -> INDEX
                       [] t = "DIFF" -> DIFF
                       [] t = "LUMA" -> LUMA
                       [] t = "RUN" -> RUN
        IN  range.START <= b /\ b <= range.END }

\* the opcode of control byte b: 0xFE is RGB, 0xFF is RGBA, any other byte
\* goes by its top 2 bits
OpcodeOf(b) ==
    IF b = 254 THEN "RGB"
    ELSE IF b = 255 THEN "RGBA"
    ELSE CHOOSE t \in TagsOf(b) : TRUE

\* C20: every control byte 0..255 is dispatched to exactly one of the six
\* opcodes (0xFE to RGB, 0xFF to RGBA, otherwise by its top 2 bits to INDEX,
\* DIFF, LUMA or RUN), so the "Illegal op code" error is never returned.
C20_DispatchIsTotal ==
    /\ result # illegal_op_code
    /\ (pc = "loop" /\ bytes # <<>>)
         => /\ Cardinality(TagsOf(Head(bytes))) = 1
            /\ dispatch(Head(bytes)) = OpcodeOf(Head(bytes))
    /\ next_byte # -1 => dispatch(next_byte) = OpcodeOf(next_byte)

C20_Witness ==
    /\ next_byte = 191
    /\ dispatch(next_byte) = "LUMA"
    /\ Len(pixels) = 2
    /\ result = "running"

====
